---- MODULE Spec2Model ----
(***************************************************************************)
(* Admission control, task queue / worker and usage ledger of the          *)
(* openframe backend: FirebaseService (users collection in Firestore),     *)
(* verifyTierAccess middleware, the /api/agent/tasks routes, the BullMQ    *)
(* queue "agent-tasks" with its worker processor, and the audit service.   *)
(*                                                                         *)
(* Every await of the TypeScript code that reads or writes a shared store  *)
(* (Firestore, Redis/BullMQ) is one step of the model, so handlers of      *)
(* different requests and jobs interleave exactly at those points; steps   *)
(* that touch only the handler's own locals, the in-memory audit map or a  *)
(* store the model does not read are joined to the neighbouring step.      *)
(* Time is counted in units of thirty days.                                *)
(***************************************************************************)
EXTENDS Integers, Sequences, FiniteSets, TLC

\* ------------------------------------------------------------------------
\* Bounds of the model
\* ------------------------------------------------------------------------
\* number of task submissions (each submission is one request and, when
\* admitted, one job; the uuid of the task is the index of the submission)
MaxTasks == 2
\* the clock stops advancing at MaxTime
MaxTime == 2
\* executions of the external executor that fail, over all tasks
MaxFailures == 3
\* grant-tokens requests the administrator makes
MaxGrants == 2
\* requests one client address sends within one minute
MaxHits == 11

\* records in the audit map
MaxLogs == 4
\* largest limit given to an audit query
MaxLimit == 2
\* requests that reach the usage middleware
MaxRequests == 2

Tasks == 1..MaxTasks
Users == {"u1"}
\* the authenticated caller of every submission
Uid(t) == "u1"

\* ------------------------------------------------------------------------
\* Program constants
\* ------------------------------------------------------------------------
\* billing cycle length, Date.now() + 30 * 24 * 60 * 60 * 1000, one unit
ThirtyDays == 1
\* config.QUEUE_MAX_RETRIES default, used as defaultJobOptions.attempts
QUEUE_MAX_RETRIES == 3
\* BullMQ worker option maxStalledCount (library default)
MaxStalledCount == 1
\* defaultJobOptions.backoff.delay, milliseconds
BackoffDelay == 2000

\* agentTaskRateLimiter: max requests per window of one minute
RateLimitMax == 10
\* client addresses (req.ip)
RateKeys == {"ip1", "ip2"}

UserTier == {"free", "pro", "enterprise"}
PaymentStatus == {"active", "past_due", "canceled", "trialing", "none"}

\* TIER_CONFIGS[tier].monthlyTokenLimit
monthlyTokenLimit(tier) ==
  CASE tier = "free" -> 50000
    [] tier = "pro" -> 1000000
    [] tier = "enterprise" -> 10000000

\* TIER_CONFIGS[tier].maxConcurrentAgents
maxConcurrentAgents(tier) ==
  CASE tier = "free" -> 1
    [] tier = "pro" -> 3
    [] tier = "enterprise" -> 10

\* TIER_CONFIGS[tier].features
features(tier) ==
  CASE tier = "free" -> <<"basic_ai", "patch", "explain">>
    [] tier = "pro" -> <<"basic_ai", "patch", "explain", "generate_test",
                         "lint_fix", "priority_queue">>
    [] tier = "enterprise" -> <<"all", "dedicated_support", "custom_models", "sla">>

\* TIER_CONFIGS[tier].tasksPerMinute
tasksPerMinute(tier) ==
  CASE tier = "free" -> 5
    [] tier = "pro" -> 20
    [] tier = "enterprise" -> 100

\* amounts the administrator may grant (any positive number is accepted)
GrantChoices == {100, 50000}
\* tokens the external executor may report for one execution
TokenChoices == {100, 200}
\* usage an existing account may already have when the model starts
InitTokens == {49900}

\* ------------------------------------------------------------------------
\* State
\* ------------------------------------------------------------------------
VARIABLES
  now,          \* wall clock
  users,        \* Firestore collection 'users': uid -> document
  rpc,          \* position of the POST /tasks request of each submission
  rsnap,        \* the request's local userData while upsertUserData runs
  rcfg,         \* the tier whose tierConfig the request holds
  decision,     \* result of verifyUserAccess for the request
  jstate,       \* BullMQ state of the job of each task
  wpc,          \* position of the worker processor on the job
  attemptsMade, \* BullMQ job.attemptsMade (failed attempts)
  started,      \* number of times the processor was started on the job
  stalled,      \* BullMQ stalled counter of the job
  taskStatus,   \* task.status of the copy of job.data the processor works on
  wsnap,        \* currentConcurrentAgents read by decrementConcurrentAgents
  auditLogs,    \* audit service records (the values of the auditLogs map)
  settles,      \* history: trackTokenUsage calls made for the task
  held,         \* history: increments minus decrements applied for the task
  releases,     \* history: decrementConcurrentAgents calls made for the task
  executed,     \* history: executions of the task the executor has completed
  nfail,        \* history: executions that have failed so far
  stats,        \* the last answer of getUserStats for each user, if any
  ngrants,      \* history: grant-tokens requests served so far
  rlHits,       \* agentTaskRateLimiter: hits of each key in the current window
  accepted,     \* history: submissions of each user accepted in this minute
  permanentAt,  \* history: the execution of the task that failed for good, or 0
  delay,        \* backoff delay (ms) BullMQ gave the job at its last retry, or 0
  auditMap,     \* the auditLogs map in insertion order, with the fields the queries read
  auditAnswer,  \* the last answer of getUserAuditLogs / getProjectAuditLogs, if any
  response,     \* the last answer of a task route to a caller who is not the owner, if any
  usage         \* the Go usage middleware: its switch, the points balance, its requests

vars == <<now, users, rpc, rsnap, rcfg, decision, jstate, wpc, attemptsMade,
          started, stalled, taskStatus, wsnap, auditLogs, settles, held,
          releases, executed, nfail, stats, ngrants, rlHits, accepted,
          permanentAt, delay, auditMap, auditAnswer, response, usage>>

reqVars == <<rpc, rsnap, rcfg, decision>>
jobVars == <<jstate, wpc, attemptsMade, started, stalled, taskStatus, wsnap>>
histVars == <<settles, held, releases, executed>>
\* variables of the operations beside the task path
sideVars == <<stats, ngrants, rlHits, accepted, permanentAt, delay, auditMap,
              auditAnswer, response, usage>>
\* variables of the services beside the task path and the account store
serviceVars == <<auditMap, auditAnswer, response, usage>>
\* the store of the rate limiter
rateVars == <<rlHits, accepted>>

\* requests of the Go daemon's API
Requests == 1 .. MaxRequests

\* the usage middleware before NewUsageMiddleware has run
NoUsage ==
  [configured |-> FALSE, enabled |-> FALSE, points |-> 0,
   pc |-> [r \in Requests |-> "new"],
   header |-> [r \in Requests |-> "none"],
   pointsSeen |-> [r \in Requests |-> 0],
   ran |-> [r \in Requests |-> 0],
   handlerStatus |-> [r \in Requests |-> 0],
   status |-> [r \in Requests |-> 0],
   deducted |-> [r \in Requests |-> 0]]

\* a document that does not exist (userDoc.exists = false)
NoUser ==
  [exists |-> FALSE, tier |-> "free", isPaid |-> FALSE, paymentStatus |-> "none",
   tokensUsedThisMonth |-> 0, tasksCompletedThisMonth |-> 0,
   currentConcurrentAgents |-> 0, billingCycleStart |-> 0, billingCycleEnd |-> 0,
   enabledFeatures |-> <<>>]

\* upsertUserData: the document written for a new user
NewUser(t0) ==
  [exists |-> TRUE, tier |-> "free", isPaid |-> FALSE, paymentStatus |-> "none",
   tokensUsedThisMonth |-> 0, tasksCompletedThisMonth |-> 0,
   currentConcurrentAgents |-> 0, billingCycleStart |-> t0,
   billingCycleEnd |-> t0 + ThirtyDays, enabledFeatures |-> features("free")]

Init ==
  /\ now = 0
  /\ users \in [Users -> {NoUser} \cup
                  {[NewUser(0) EXCEPT !.tokensUsedThisMonth = k] : k \in InitTokens}]
  /\ rpc = [t \in Tasks |-> "idle"]
  /\ rsnap = [t \in Tasks |-> NoUser]
  /\ rcfg = [t \in Tasks |-> "free"]
  /\ decision = [t \in Tasks |-> "none"]
  /\ jstate = [t \in Tasks |-> "none"]
  /\ wpc = [t \in Tasks |-> "idle"]
  /\ attemptsMade = [t \in Tasks |-> 0]
  /\ started = [t \in Tasks |-> 0]
  /\ stalled = [t \in Tasks |-> 0]
  /\ taskStatus = [t \in Tasks |-> "queued"]
  /\ wsnap = [t \in Tasks |-> 0]
  /\ auditLogs = {}
  /\ settles = [t \in Tasks |-> 0]
  /\ held = [t \in Tasks |-> 0]
  /\ releases = [t \in Tasks |-> 0]
  /\ executed = [t \in Tasks |-> 0]
  /\ nfail = 0
  /\ stats = [u \in Users |-> <<>>]
  /\ ngrants = 0
  /\ rlHits = [k \in RateKeys |-> 0]
  /\ accepted = [u \in Users |-> 0]
  /\ permanentAt = [t \in Tasks |-> 0]
  /\ delay = [t \in Tasks |-> 0]
  /\ auditMap = <<>>
  /\ auditAnswer = <<>>
  /\ response = <<>>
  /\ usage = NoUsage

\* ------------------------------------------------------------------------
\* FirebaseService.verifyUserAccess, called by the verifyTierAccess middleware
\* ------------------------------------------------------------------------
\* the checks with the quota comparison strict (> for >=)
AccessChecksStrictQuota(ud, cfg) ==
  IF ud.tier # "free" /\ ~ud.isPaid THEN "PaymentRequired"
  ELSE IF ud.tier # "free" /\ ud.paymentStatus \notin {"active", "trialing"}
    THEN "SubscriptionInactive"
  ELSE IF ud.tokensUsedThisMonth > monthlyTokenLimit(cfg) THEN "QuotaExceeded"
  ELSE IF ud.currentConcurrentAgents >= maxConcurrentAgents(cfg)
    THEN "ConcurrencyLimitReached"
  ELSE "Allowed"

\* the payment, quota and concurrency checks on the request's userData, with
\* the tierConfig looked up from the first read; the result is the reason:
\*   "PaymentRequired"         'Payment required. Please upgrade ...'
\*   "SubscriptionInactive"    'Subscription is <paymentStatus>. ...'
\*   "QuotaExceeded"           'Monthly token limit exceeded ...'
\*   "ConcurrencyLimitReached" 'Maximum concurrent agents reached ...'
AccessChecks(ud, cfg) ==
  IF ud.tier # "free" /\ ~ud.isPaid THEN "PaymentRequired"
  ELSE IF ud.tier # "free" /\ ud.paymentStatus \notin {"active", "trialing"}
    THEN "SubscriptionInactive"
  ELSE IF ud.tokensUsedThisMonth >= monthlyTokenLimit(cfg) THEN "QuotaExceeded"
  ELSE IF ud.currentConcurrentAgents >= maxConcurrentAgents(cfg)
    THEN "ConcurrencyLimitReached"
  ELSE "Allowed"

\* the middleware answering 403 for the payment reasons only
MiddlewareOutcomeLenient(reason) ==
  IF reason \in {"PaymentRequired", "SubscriptionInactive"}
  THEN "denied" ELSE "allowed"

\* verifyTierAccess: 403 and return when not allowed, next() otherwise
MiddlewareOutcome(reason) == IF reason = "Allowed" THEN "allowed" ELSE "denied"

\* AuditService.log*: the record put into the auditLogs map
\* (seq tells apart the records of one action on one task)
AuditLog(action, t) ==
  [action |-> action, userId |-> Uid(t), taskId |-> t,
   seq |-> Cardinality({l \in auditLogs : l.action = action /\ l.taskId = t}) + 1]

\* the end of verifyUserAccess and of the middleware for request t on userData
\* ud (on next() the route handler runs up to its first store call, which
\* includes auditService.logTaskCreated on the in-memory audit map)
Decide(t, ud) ==
  /\ decision' = [decision EXCEPT ![t] = AccessChecks(ud, rcfg'[t])]
  /\ rpc' = [rpc EXCEPT ![t] = MiddlewareOutcome(AccessChecks(ud, rcfg'[t]))]
  /\ auditLogs' = IF MiddlewareOutcome(AccessChecks(ud, rcfg'[t])) = "allowed"
                  THEN auditLogs \cup {AuditLog("task_created", t)}
                  ELSE auditLogs

\* a reset that clears every counter of the account
ResetDocAllCounters(ud) ==
  [ud EXCEPT !.tokensUsedThisMonth = 0, !.tasksCompletedThisMonth = 0,
             !.currentConcurrentAgents = 0,
             !.billingCycleStart = now, !.billingCycleEnd = now + ThirtyDays]

\* resetBillingCycle: the update written to the user document
ResetDoc(ud) ==
  [ud EXCEPT !.tokensUsedThisMonth = 0, !.tasksCompletedThisMonth = 0,
             !.billingCycleStart = now, !.billingCycleEnd = now + ThirtyDays]

\* the cycle check of verifyUserAccess on the local userData (now > cycleEnd);
\* when it holds resetBillingCycle is called, otherwise the checks run on the
\* local userData
CycleCheck(t, ud) ==
  IF now > ud.billingCycleEnd
  THEN /\ rpc' = [rpc EXCEPT ![t] = "reset"]
       /\ UNCHANGED <<decision, auditLogs>>
  ELSE Decide(t, ud)

\* submissions are numbered in the order in which they arrive
IsNextSubmission(t) == \A s \in Tasks : s < t => rpc[s] # "idle"

\* verifyUserAccess: getUserData; an existing user goes on to the cycle check
ReqLoad(t) ==
  /\ rpc[t] = "idle"
  /\ IsNextSubmission(t)
  /\ users[Uid(t)].exists
  /\ rcfg' = [rcfg EXCEPT ![t] = users[Uid(t)].tier]
  /\ CycleCheck(t, users[Uid(t)])
  /\ UNCHANGED <<now, users, rsnap, jobVars, histVars, nfail, sideVars>>

\* verifyUserAccess: getUserData returned null, upsertUserData is called
ReqLoadMissing(t) ==
  /\ rpc[t] = "idle"
  /\ IsNextSubmission(t)
  /\ ~users[Uid(t)].exists
  /\ rpc' = [rpc EXCEPT ![t] = "upsertGet"]
  /\ UNCHANGED <<now, users, rsnap, rcfg, decision, jobVars, auditLogs, histVars, nfail,
                 sideVars>>

\* upsertUserData: userRef.get()
ReqUpsertGet(t) ==
  /\ rpc[t] = "upsertGet"
  /\ IF users[Uid(t)].exists
     THEN /\ rsnap' = [rsnap EXCEPT ![t] = users[Uid(t)]]
          /\ rpc' = [rpc EXCEPT ![t] = "upsertUpdate"]
     ELSE /\ rpc' = [rpc EXCEPT ![t] = "upsertSet"]
          /\ UNCHANGED rsnap
  /\ UNCHANGED <<now, users, rcfg, decision, jobVars, auditLogs, histVars, nfail,
                 sideVars>>

\* upsertUserData: userRef.set(userData) of a new FREE user, then the checks
\* of verifyUserAccess on the returned userData
ReqUpsertSet(t) ==
  /\ rpc[t] = "upsertSet"
  /\ rcfg' = [rcfg EXCEPT ![t] = "free"]
  /\ users' = [users EXCEPT ![Uid(t)] = NewUser(now)]
  /\ Decide(t, NewUser(now))
  /\ UNCHANGED <<now, rsnap, jobVars, histVars, nfail, sideVars>>

\* upsertUserData: userRef.update({updatedAt}) of an existing user, then the
\* cycle check of verifyUserAccess on the returned userData
ReqUpsertUpdate(t) ==
  /\ rpc[t] = "upsertUpdate"
  /\ rcfg' = [rcfg EXCEPT ![t] = rsnap[t].tier]
  /\ rsnap' = [rsnap EXCEPT ![t] = NoUser]
  /\ CycleCheck(t, rsnap[t])
  /\ UNCHANGED <<now, users, jobVars, histVars, nfail, sideVars>>

\* resetBillingCycle: userRef.update of the counters and the cycle window
ReqReset(t) ==
  /\ rpc[t] = "reset"
  /\ users[Uid(t)].exists
  /\ users' = [users EXCEPT ![Uid(t)] = ResetDoc(@)]
  /\ rpc' = [rpc EXCEPT ![t] = "reread"]
  /\ UNCHANGED <<now, rsnap, rcfg, decision, jobVars, auditLogs, histVars, nfail,
                 sideVars>>

\* verifyUserAccess: getUserData after resetBillingCycle, then the checks
ReqReread(t) ==
  /\ rpc[t] = "reread"
  /\ users[Uid(t)].exists
  /\ rcfg' = rcfg
  /\ Decide(t, users[Uid(t)])
  /\ UNCHANGED <<now, users, rsnap, jobVars, histVars, nfail, sideVars>>

\* ------------------------------------------------------------------------
\* POST /api/agent/tasks after the middleware, QueueService.enqueueTask
\* ------------------------------------------------------------------------
\* the route handler: queueService.enqueueTask(task), then 201
ReqEnqueue(t) ==
  /\ rpc[t] = "allowed"
  /\ rpc' = [rpc EXCEPT ![t] = "submitted"]
  /\ jstate' = [jstate EXCEPT ![t] = "waiting"]
  /\ UNCHANGED <<now, users, rsnap, rcfg, decision, wpc, attemptsMade, started,
                 stalled, taskStatus, wsnap, auditLogs, histVars, nfail, sideVars>>

\* ------------------------------------------------------------------------
\* agentTaskWorker: the processor of the BullMQ worker
\* ------------------------------------------------------------------------
\* BullMQ hands a waiting job to the worker (concurrency QUEUE_CONCURRENCY)
\* and the processor starts: incrementConcurrentAgents, FieldValue.increment(1),
\* then status 'processing' on the processor's copy of the task
Pickup(t) ==
  /\ jstate[t] = "waiting"
  /\ jstate' = [jstate EXCEPT ![t] = "active"]
  /\ started' = [started EXCEPT ![t] = @ + 1]
  /\ users' = [users EXCEPT ![Uid(t)].currentConcurrentAgents = @ + 1]
  /\ held' = [held EXCEPT ![t] = @ + 1]
  /\ taskStatus' = [taskStatus EXCEPT ![t] = "processing"]
  /\ wpc' = [wpc EXCEPT ![t] = "execute"]
  /\ UNCHANGED <<now, reqVars, attemptsMade, stalled, wsnap, auditLogs, settles,
                 releases, executed, nfail, sideVars>>

\* trackTokenUsage: the update of tokensUsedThisMonth, tasksCompletedThisMonth
trackTokenUsage(ud, tokensUsed) ==
  [ud EXCEPT !.tokensUsedThisMonth = @ + tokensUsed,
             !.tasksCompletedThisMonth = @ + 1]

\* humanlayerClient.executeAgentTask returns with metrics.tokens = k: status
\* 'done', trackTokenUsage, auditService.logTaskCompleted; the finally block
\* follows
ExecuteSuccess(t) ==
  /\ jstate[t] = "active" /\ wpc[t] = "execute"
  /\ \E k \in TokenChoices :
       users' = [users EXCEPT ![Uid(t)] = trackTokenUsage(@, k)]
  /\ settles' = [settles EXCEPT ![t] = @ + 1]
  /\ executed' = [executed EXCEPT ![t] = @ + 1]
  /\ taskStatus' = [taskStatus EXCEPT ![t] = "done"]
  /\ auditLogs' = auditLogs \cup {AuditLog("task_completed", t)}
  /\ wpc' = [wpc EXCEPT ![t] = "decrementRead"]
  /\ UNCHANGED <<now, reqVars, jstate, attemptsMade, started, stalled, wsnap,
                 held, releases, nfail, sideVars>>

\* humanlayerClient.executeAgentTask throws: the catch block sets status
\* 'failed', logs task_failed and rethrows; the finally block follows
ExecuteFailure(t) ==
  /\ jstate[t] = "active" /\ wpc[t] = "execute"
  /\ nfail < MaxFailures
  /\ nfail' = nfail + 1
  /\ taskStatus' = [taskStatus EXCEPT ![t] = "failed"]
  /\ auditLogs' = auditLogs \cup {AuditLog("task_failed", t)}
  /\ wpc' = [wpc EXCEPT ![t] = "decrementRead"]
  /\ UNCHANGED <<now, users, reqVars, jstate, attemptsMade, started, stalled,
                 wsnap, histVars, sideVars>>

\* humanlayerClient.executeAgentTask returns but trackTokenUsage throws
\* 'Failed to track token usage', either before the update of the user
\* document or after it (the write to usage_logs fails): the catch block sets
\* status 'failed', logs task_failed and rethrows; the finally block follows
SettleFailure(t) ==
  /\ jstate[t] = "active" /\ wpc[t] = "execute"
  /\ nfail < MaxFailures
  /\ nfail' = nfail + 1
  /\ executed' = [executed EXCEPT ![t] = @ + 1]
  /\ \E written \in BOOLEAN :
       IF written
       THEN /\ \E k \in TokenChoices :
                 users' = [users EXCEPT ![Uid(t)] = trackTokenUsage(@, k)]
            /\ settles' = [settles EXCEPT ![t] = @ + 1]
       ELSE UNCHANGED <<users, settles>>
  /\ taskStatus' = [taskStatus EXCEPT ![t] = "failed"]
  /\ auditLogs' = auditLogs \cup {AuditLog("task_failed", t)}
  /\ wpc' = [wpc EXCEPT ![t] = "decrementRead"]
  /\ UNCHANGED <<now, reqVars, jstate, attemptsMade, started, stalled, wsnap,
                 held, releases, sideVars>>

\* the processor finds no API key for config.LLM_PROVIDER and throws 'No API
\* key configured', a failure no retry can cure: the catch block sets status
\* 'failed', logs task_failed and rethrows; the finally block follows
ConfigurationFailure(t) ==
  /\ jstate[t] = "active" /\ wpc[t] = "execute"
  /\ nfail < MaxFailures
  /\ nfail' = nfail + 1
  /\ permanentAt' = [permanentAt EXCEPT ![t] = started[t]]
  /\ taskStatus' = [taskStatus EXCEPT ![t] = "failed"]
  /\ auditLogs' = auditLogs \cup {AuditLog("task_failed", t)}
  /\ wpc' = [wpc EXCEPT ![t] = "decrementRead"]
  /\ UNCHANGED <<now, users, reqVars, jstate, attemptsMade, started, stalled,
                 wsnap, histVars, stats, ngrants, rateVars, delay,
                 serviceVars>>

\* decrementConcurrentAgents (finally block): getUserData
decrementRead(t) ==
  /\ jstate[t] = "active" /\ wpc[t] = "decrementRead"
  /\ wsnap' = [wsnap EXCEPT ![t] =
        IF users[Uid(t)].exists THEN users[Uid(t)].currentConcurrentAgents ELSE 0]
  /\ wpc' = [wpc EXCEPT ![t] = "decrementWrite"]
  /\ UNCHANGED <<now, users, reqVars, jstate, attemptsMade, started, stalled,
                 taskStatus, auditLogs, histVars, nfail, sideVars>>

\* a backoff of type 'fixed': the same delay before every retry
backoffDelayFixed(made) == BackoffDelay

\* defaultJobOptions.backoff {type: 'exponential', delay: 2000}: the delay
\* BullMQ puts before the retry of a job whose attemptsMade, this failure
\* counted, is made: 2^(made - 1) * delay, with no upper limit
backoffDelay(made) == (2 ^ (made - 1)) * BackoffDelay

\* a retry ceiling that is one attempt too high
AfterFailureOneMore(made) ==
  IF made <= QUEUE_MAX_RETRIES THEN "waiting" ELSE "failed"

\* the state BullMQ gives a job whose processor threw, with attemptsMade
\* already counting this attempt: retried (delayed by the backoff, then
\* waiting) while attemptsMade < attempts, failed otherwise
AfterFailure(made) == IF made < QUEUE_MAX_RETRIES THEN "waiting" ELSE "failed"

\* decrementConcurrentAgents: FieldValue.increment(-1) when the value read
\* was positive; then the processor returns (status 'done', BullMQ moves the
\* job to completed) or throws (status 'failed', BullMQ counts the attempt)
decrementWrite(t) ==
  /\ jstate[t] = "active" /\ wpc[t] = "decrementWrite"
  /\ IF wsnap[t] > 0
     THEN /\ users' = [users EXCEPT ![Uid(t)].currentConcurrentAgents = @ - 1]
          /\ held' = [held EXCEPT ![t] = @ - 1]
     ELSE UNCHANGED <<users, held>>
  /\ releases' = [releases EXCEPT ![t] = @ + 1]
  /\ wsnap' = [wsnap EXCEPT ![t] = 0]
  /\ wpc' = [wpc EXCEPT ![t] = "idle"]
  /\ taskStatus' = [taskStatus EXCEPT ![t] = "queued"]
  /\ IF taskStatus[t] = "done"
     THEN /\ jstate' = [jstate EXCEPT ![t] = "completed"]
          /\ UNCHANGED attemptsMade
     ELSE /\ attemptsMade' = [attemptsMade EXCEPT ![t] = @ + 1]
          /\ jstate' = [jstate EXCEPT ![t] = AfterFailure(attemptsMade[t] + 1)]
  /\ delay' = IF taskStatus[t] # "done"
                 /\ AfterFailure(attemptsMade[t] + 1) = "waiting"
              THEN [delay EXCEPT ![t] = backoffDelay(attemptsMade[t] + 1)]
              ELSE delay
  /\ UNCHANGED <<now, reqVars, started, stalled, auditLogs, settles, executed,
                 nfail, stats, ngrants, rateVars, permanentAt,
                 serviceVars>>

\* a worker that dies on a queue without a stalled check: the job stays
\* active and nobody works on it
WorkerCrashNoRedelivery(t) ==
  /\ jstate[t] = "active"
  /\ wpc[t] # "idle"
  /\ wpc' = [wpc EXCEPT ![t] = "idle"]
  /\ taskStatus' = [taskStatus EXCEPT ![t] = "queued"]
  /\ wsnap' = [wsnap EXCEPT ![t] = 0]
  /\ UNCHANGED <<now, users, reqVars, jstate, attemptsMade, started, stalled,
                 auditLogs, histVars, nfail, sideVars>>

\* the worker process dies while the job is active (no catch, no finally):
\* the job's lock expires and BullMQ's stalled check moves the job back to
\* wait, or to failed once it has stalled more than maxStalledCount times
WorkerCrash(t) ==
  /\ jstate[t] = "active"
  /\ stalled' = [stalled EXCEPT ![t] = @ + 1]
  /\ jstate' = [jstate EXCEPT ![t] =
        IF stalled[t] + 1 > MaxStalledCount THEN "failed" ELSE "waiting"]
  /\ wpc' = [wpc EXCEPT ![t] = "idle"]
  /\ taskStatus' = [taskStatus EXCEPT ![t] = "queued"]
  /\ wsnap' = [wsnap EXCEPT ![t] = 0]
  /\ UNCHANGED <<now, users, reqVars, attemptsMade, started, auditLogs, histVars,
                 nfail, sideVars>>

\* ------------------------------------------------------------------------
\* QueueService.getTaskStatus and cancelTask, DELETE /api/agent/tasks/:taskId
\* ------------------------------------------------------------------------
\* getTaskStatus: task.status derived from the BullMQ job state
StatusOf(js) ==
  CASE js = "completed" -> "done"
    [] js = "failed" -> "failed"
    [] js = "active" -> "processing"
    [] OTHER -> "queued"

\* getJob returns a job
JobExists(t) == jstate[t] \notin {"none", "removed"}

\* job.remove() throws for a job locked by a worker (active) and removes a
\* job in any other state
Removable(js) == js # "active"

\* DELETE /tasks/:taskId by the owner: 404 without a job; cancelTask returns
\* true after job.remove(), which deletes the job with its counters, and
\* false (answered 500 'Failed to cancel task') when remove throws
CancelTask(t) ==
  /\ JobExists(t)
  /\ Removable(jstate[t])
  /\ jstate' = [jstate EXCEPT ![t] = "removed"]
  /\ attemptsMade' = [attemptsMade EXCEPT ![t] = 0]
  /\ stalled' = [stalled EXCEPT ![t] = 0]
  /\ delay' = [delay EXCEPT ![t] = 0]
  /\ UNCHANGED <<now, users, reqVars, wpc, started, taskStatus, wsnap, auditLogs,
                 histVars, nfail, stats, ngrants, rateVars, permanentAt,
                 serviceVars>>

\* ------------------------------------------------------------------------
\* AuditService: the queries on the auditLogs map
\* ------------------------------------------------------------------------
\* callers and projects that appear in audit records
AuditUsers == {"u1", "u2"}
Projects == {"p1", "p2"}

\* AuditService.logTaskCreated / logTaskCompleted / logTaskFailed /
\* logPatchDecision: auditLogs.set(log.id, log) with timestamp new Date(); id
\* stands for the uuid, the map keeps insertion order
LogRecord(u, p) ==
  /\ Len(auditMap) < MaxLogs
  /\ auditMap' = Append(auditMap,
        [id |-> Len(auditMap) + 1, userId |-> u, projectId |-> p,
         timestamp |-> now])
  /\ UNCHANGED <<now, users, reqVars, jobVars, auditLogs, histVars, nfail, stats,
                 ngrants, rateVars, permanentAt, delay, auditAnswer,
                 response, usage>>

\* x put into s, which is ordered newest first, behind the records that are
\* not older than x
InsertNewestFirst(x, s) ==
  LET k == Cardinality({i \in 1 .. Len(s) : s[i].timestamp >= x.timestamp})
  IN SubSeq(s, 1, k) \o <<x>> \o SubSeq(s, k + 1, Len(s))

\* a sort that puts the oldest record first
RECURSIVE SortOldestFirst(_)
SortOldestFirst(s) ==
  IF s = <<>> THEN <<>>
  ELSE LET r == SortOldestFirst(SubSeq(s, 1, Len(s) - 1))
           x == s[Len(s)]
           k == Cardinality({i \in 1 .. Len(r) : r[i].timestamp <= x.timestamp})
       IN SubSeq(r, 1, k) \o <<x>> \o SubSeq(r, k + 1, Len(r))

\* .sort((a, b) => b.timestamp.getTime() - a.timestamp.getTime()): the stable
\* sort of Array.prototype.sort, records of one timestamp keep their order
RECURSIVE SortNewestFirst(_)
SortNewestFirst(s) ==
  IF s = <<>> THEN <<>>
  ELSE InsertNewestFirst(s[Len(s)], SortNewestFirst(SubSeq(s, 1, Len(s) - 1)))

\* .slice(0, limit) for a limit >= 0
Slice(s, limit) == SubSeq(s, 1, IF limit < Len(s) THEN limit ELSE Len(s))

\* getUserAuditLogs(userId, limit): filter, sort, slice
getUserAuditLogs(userId, limit) ==
  Slice(SortNewestFirst(SelectSeq(auditMap, LAMBDA l : l.userId = userId)), limit)

\* getProjectAuditLogs(projectId, limit): filter, sort, slice
getProjectAuditLogs(projectId, limit) ==
  Slice(SortNewestFirst(SelectSeq(auditMap, LAMBDA l : l.projectId = projectId)),
        limit)

\* a call of getUserAuditLogs
GetUserAuditLogs(u) ==
  /\ \E limit \in 0 .. MaxLimit :
       auditAnswer' = <<[by |-> "user", key |-> u, limit |-> limit,
                         logs |-> getUserAuditLogs(u, limit)]>>
  /\ UNCHANGED <<now, users, reqVars, jobVars, auditLogs, histVars, nfail, stats,
                 ngrants, rateVars, permanentAt, delay, auditMap,
                 response, usage>>

\* a call of getProjectAuditLogs
GetProjectAuditLogs(p) ==
  /\ \E limit \in 0 .. MaxLimit :
       auditAnswer' = <<[by |-> "project", key |-> p, limit |-> limit,
                         logs |-> getProjectAuditLogs(p, limit)]>>
  /\ UNCHANGED <<now, users, reqVars, jobVars, auditLogs, histVars, nfail, stats,
                 ngrants, rateVars, permanentAt, delay, auditMap,
                 response, usage>>

\* ------------------------------------------------------------------------
\* routes/agent.ts: the task routes called by somebody else than the owner
\* ------------------------------------------------------------------------
\* authenticated callers (req.user.uid)
Callers == AuditUsers
\* GET /tasks/:taskId, DELETE /tasks/:taskId, POST /tasks/:taskId/accept and
\* /reject
TaskRoutes == {"get", "cancel", "accept", "reject"}

\* the status the four routes answer to caller c for task t when c is not
\* task.userId: 404 'Task not found' when getTaskStatus finds no job, 403
\* 'Unauthorized access to task' otherwise
ForeignStatus(t) == IF JobExists(t) THEN 403 ELSE 404

\* a task route called by c, who did not submit t: getTaskStatus, then the
\* AppError; nothing is written
ForeignTaskRequest(c, t, route) ==
  /\ c # Uid(t)
  /\ jstate[t] # "none"
  /\ response' = <<[caller |-> c, taskId |-> t, route |-> route,
                    status |-> ForeignStatus(t)]>>
  /\ UNCHANGED <<now, users, reqVars, jobVars, auditLogs, histVars, nfail, stats,
                 ngrants, rateVars, permanentAt, delay, auditMap, auditAnswer,
                 usage>>

\* ------------------------------------------------------------------------
\* hld/api/middleware/usage.go: UsageMiddleware (CheckAuth around TrackUsage
\* around the handler), one user
\* ------------------------------------------------------------------------
\* the Authorization header of a request: missing, not a Bearer header, a
\* Bearer token VerifyToken rejects, a Bearer token of the user
Headers == {"none", "notBearer", "badToken", "valid"}
\* points balances of the user when the daemon starts
PointsChoices == {0, 1, 3}
\* firebase.CalculatePointsCost: at least 1 point for every request
CostChoices == {1, 2}
\* status codes the wrapped handler answers
HandlerStatuses == {200, 500}

\* the middleware's work on the requests is left alone
UsageFrame ==
  UNCHANGED <<now, users, reqVars, jobVars, auditLogs, histVars, nfail, stats,
              ngrants, rateVars, permanentAt, delay, auditMap, auditAnswer,
              response>>

\* NewUsageMiddleware: enabled is ENABLE_USAGE_TRACKING == "true"
NewUsageMiddleware ==
  /\ ~usage.configured
  /\ \E enabled \in BOOLEAN, points \in PointsChoices :
       usage' = [usage EXCEPT !.configured = TRUE, !.enabled = enabled,
                              !.points = points]
  /\ UsageFrame

\* CheckAuth for request r with Authorization header h: passes the request on
\* when tracking is disabled; otherwise 401 without a header, without the
\* Bearer prefix or with a token VerifyToken rejects, 500 when GetUserPoints
\* fails, 402 when points < 1, and the request goes on with user_id set
CheckAuth(r, h) ==
  /\ usage.configured
  /\ usage.pc[r] = "new"
  /\ \E pointsRead \in BOOLEAN :
       LET answer ==
             IF ~usage.enabled THEN 0
             ELSE IF h = "none" \/ h = "notBearer" \/ h = "badToken" THEN 401
             ELSE IF ~pointsRead THEN 500
             ELSE IF usage.points < 1 THEN 402
             ELSE 0
       IN usage' = [usage EXCEPT
            !.header[r] = h,
            !.pointsSeen[r] = IF usage.enabled /\ h = "valid" /\ pointsRead
                              THEN usage.points ELSE 0,
            !.status[r] = answer,
            !.pc[r] = IF answer # 0 THEN "done"
                      ELSE IF usage.enabled THEN "track" ELSE "handler"]
  /\ UsageFrame

\* TrackUsage before the handler (tracking enabled, user_id in the context):
\* io.ReadAll of the body and json.Unmarshal, 400 when either fails
TrackUsageBefore(r) ==
  /\ usage.pc[r] = "track"
  /\ \E bodyOk \in BOOLEAN :
       usage' = [usage EXCEPT
            !.status[r] = IF bodyOk THEN 0 ELSE 400,
            !.pc[r] = IF bodyOk THEN "handler" ELSE "done"]
  /\ UsageFrame

\* next.ServeHTTP: the wrapped handler answers the request; with tracking
\* disabled the request is finished
ServeHTTP(r) ==
  /\ usage.pc[r] = "handler"
  /\ \E code \in HandlerStatuses :
       usage' = [usage EXCEPT
            !.ran[r] = @ + 1,
            !.handlerStatus[r] = code,
            !.status[r] = code,
            !.pc[r] = IF usage.enabled THEN "deduct" ELSE "done"]
  /\ UsageFrame

\* a middleware that charges every request
ShouldDeductAlways(statusCode, pointsCost) == pointsCost > 0

\* success && pointsCost > 0, success being 200 <= statusCode < 300
ShouldDeduct(statusCode, pointsCost) ==
  (statusCode >= 200 /\ statusCode < 300) /\ pointsCost > 0

\* Client.DeductPoints in its transaction: the balance left, or the balance
\* as it was when the user has fewer points than amount (an error)
DeductPoints(points, amount) == IF points < amount THEN points ELSE points - amount

\* TrackUsage after the handler: CalculatePointsCost, DeductPoints when the
\* request succeeded (an error of DeductPoints, store failure included, is
\* logged only), LogUsage
TrackUsageAfter(r) ==
  /\ usage.pc[r] = "deduct"
  /\ \E pointsCost \in CostChoices, storeOk \in BOOLEAN :
       IF ShouldDeduct(usage.handlerStatus[r], pointsCost)
       THEN usage' = [usage EXCEPT
              !.points = IF storeOk THEN DeductPoints(@, pointsCost) ELSE @,
              !.deducted[r] = IF storeOk /\ usage.points >= pointsCost
                              THEN @ + 1 ELSE @,
              !.pc[r] = "done"]
       ELSE usage' = [usage EXCEPT !.pc[r] = "done"]
  /\ UsageFrame

\* ------------------------------------------------------------------------
\* FirebaseService.updateUserTier and its callers
\* ------------------------------------------------------------------------
\* an update of the tier that leaves enabledFeatures as it was
updateUserTierKeepsFeatures(u, tier, isPaid, paymentStatus) ==
  /\ users[u].exists
  /\ users' = [users EXCEPT ![u].tier = tier, ![u].isPaid = isPaid,
                            ![u].paymentStatus = paymentStatus]
  /\ UNCHANGED <<now, reqVars, jobVars, auditLogs, histVars, nfail, sideVars>>

\* updateUserTier: the update written to the user document
updateUserTier(u, tier, isPaid, paymentStatus) ==
  /\ users[u].exists
  /\ users' = [users EXCEPT ![u].tier = tier, ![u].isPaid = isPaid,
                            ![u].paymentStatus = paymentStatus,
                            ![u].enabledFeatures = features(tier)]
  /\ UNCHANGED <<now, reqVars, jobVars, auditLogs, histVars, nfail, sideVars>>

\* subscription statuses the Stripe events of the model carry
StripeStatuses == {"active", "past_due"}

\* webhook customer.subscription.created / updated for the pro price
SubscriptionUpdated(u) ==
  \E st \in StripeStatuses :
    updateUserTier(u, "pro", st \in {"active", "trialing"}, st)

\* webhook customer.subscription.deleted: downgrade to free
SubscriptionDeleted(u) == updateUserTier(u, "free", FALSE, "canceled")

\* webhook invoice.payment_failed: tier kept, isPaid false, past_due
PaymentFailed(u) == updateUserTier(u, users[u].tier, FALSE, "past_due")

\* POST /api/admin/users/:uid/tier with the body
\* {tier: pro, isPaid: true, paymentStatus: past_due}
AdminUpdateTier(u) == updateUserTier(u, "pro", TRUE, "past_due")

\* ------------------------------------------------------------------------
\* FirebaseService.getUserStats, GET /api/agent/stats
\* ------------------------------------------------------------------------
\* getUserStats: the statistics computed from the user document as read
getUserStats(ud) ==
  [tier |-> ud.tier,
   tokensUsed |-> ud.tokensUsedThisMonth,
   tokensRemaining |->
     IF monthlyTokenLimit(ud.tier) - ud.tokensUsedThisMonth > 0
     THEN monthlyTokenLimit(ud.tier) - ud.tokensUsedThisMonth ELSE 0,
   tasksCompleted |-> ud.tasksCompletedThisMonth,
   concurrentAgents |-> ud.currentConcurrentAgents,
   maxConcurrentAgents |-> maxConcurrentAgents(ud.tier),
   billingCycleEnd |-> ud.billingCycleEnd,
   paymentStatus |-> ud.paymentStatus]

\* GET /stats: firebaseService.getUserStats(userId) on the document as it is
\* read (404 'User not found' without a document); the second read of the
\* route supplies isPaid only
GetStats(u) ==
  /\ users[u].exists
  /\ stats' = [stats EXCEPT ![u] = <<getUserStats(users[u])>>]
  /\ UNCHANGED <<now, users, reqVars, jobVars, auditLogs, histVars, nfail,
                 ngrants, rateVars, permanentAt, delay,
                 serviceVars>>

\* ------------------------------------------------------------------------
\* Admin routes on the usage of an account
\* ------------------------------------------------------------------------
\* POST /api/admin/users/:uid/grant-tokens with body {tokens}:
\* trackTokenUsage(uid, -tokens) (500 when the document does not exist)
GrantTokens(u) ==
  /\ ngrants < MaxGrants
  /\ users[u].exists
  /\ \E tokens \in GrantChoices :
       users' = [users EXCEPT ![u] = trackTokenUsage(@, 0 - tokens)]
  /\ ngrants' = ngrants + 1
  /\ UNCHANGED <<now, reqVars, jobVars, auditLogs, histVars, nfail, stats,
                 rateVars, permanentAt, delay,
                 serviceVars>>

\* POST /api/admin/users/:uid/reset-billing: getUserData (404 without a
\* document), then resetBillingCycle, which writes whatever was read
AdminResetBilling(u) ==
  /\ users[u].exists
  /\ users' = [users EXCEPT ![u] = ResetDoc(@)]
  /\ UNCHANGED <<now, reqVars, jobVars, auditLogs, histVars, nfail, sideVars>>

\* ------------------------------------------------------------------------
\* agentTaskRateLimiter on /api/agent, in front of verifyFirebaseToken
\* ------------------------------------------------------------------------
\* keyGenerator: user?.uid || req.ip; the limiter is mounted before
\* verifyFirebaseToken, so req.user is not set and the key is the address
keyGenerator(ip) == ip

\* a POST /api/agent/tasks of user u from address ip within the current
\* minute: the limiter counts the hit and answers 429 above max; otherwise
\* verifyTierAccess decides on the user document, and an allowed submission
\* is accepted (201). The jobs of these submissions are not followed.
RateLimitedSubmission(u, ip) ==
  /\ rlHits[keyGenerator(ip)] < MaxHits
  /\ users[u].exists
  /\ now <= users[u].billingCycleEnd
  /\ rlHits' = [rlHits EXCEPT ![keyGenerator(ip)] = @ + 1]
  /\ accepted' =
       IF /\ rlHits[keyGenerator(ip)] + 1 <= RateLimitMax
          /\ AccessChecks(users[u], users[u].tier) = "Allowed"
       THEN [accepted EXCEPT ![u] = @ + 1]
       ELSE accepted
  /\ UNCHANGED <<now, users, reqVars, jobVars, auditLogs, histVars, nfail, stats,
                 ngrants, permanentAt, delay,
                 serviceVars>>

\* the window of one minute ends: the limiter's keys expire
MinuteEnds ==
  /\ \E k \in RateKeys : rlHits[k] > 0
  /\ rlHits' = [k \in RateKeys |-> 0]
  /\ accepted' = [u \in Users |-> 0]
  /\ UNCHANGED <<now, users, reqVars, jobVars, auditLogs, histVars, nfail, stats,
                 ngrants, permanentAt, delay,
                 serviceVars>>

\* ------------------------------------------------------------------------
\* AuditService.cleanupOldLogs
\* ------------------------------------------------------------------------
\* cleanupOldLogs(daysToKeep) deletes from the auditLogs map every record
\* with timestamp < cutoffDate; called with daysToKeep = 0 the cutoff is the
\* instant of the call, which every record written before the call precedes
\* (the records carry no timestamp in the model, so the calls with a positive
\* daysToKeep, which delete a part of the records, are not modelled)
CleanupOldLogs ==
  /\ auditLogs # {}
  /\ auditLogs' = {}
  /\ UNCHANGED <<now, users, reqVars, jobVars, histVars, nfail, sideVars>>

\* the clock
Tick ==
  /\ now < MaxTime
  /\ now' = now + 1
  /\ UNCHANGED <<users, reqVars, jobVars, auditLogs, histVars, nfail, sideVars>>

Next ==
  \/ \E t \in Tasks : ReqLoad(t)
  \/ \E t \in Tasks : ReqLoadMissing(t)
  \/ \E t \in Tasks : ReqUpsertGet(t)
  \/ \E t \in Tasks : ReqUpsertSet(t)
  \/ \E t \in Tasks : ReqUpsertUpdate(t)
  \/ \E t \in Tasks : ReqReset(t)
  \/ \E t \in Tasks : ReqReread(t)
  \/ \E t \in Tasks : ReqEnqueue(t)
  \/ \E t \in Tasks : Pickup(t)
  \/ \E t \in Tasks : ExecuteSuccess(t)
  \/ \E t \in Tasks : ExecuteFailure(t)
  \/ \E t \in Tasks : decrementRead(t)
  \/ \E t \in Tasks : decrementWrite(t)
  \/ \E t \in Tasks : CancelTask(t)
  \/ \E u \in Users : SubscriptionUpdated(u)
  \/ \E u \in Users : SubscriptionDeleted(u)
  \/ \E u \in Users : PaymentFailed(u)
  \/ \E u \in Users : AdminUpdateTier(u)
  \/ Tick

\* the service with the account's tier and payment standing left alone
NextCore ==
  \/ \E t \in Tasks : ReqLoad(t)
  \/ \E t \in Tasks : ReqLoadMissing(t)
  \/ \E t \in Tasks : ReqUpsertGet(t)
  \/ \E t \in Tasks : ReqUpsertSet(t)
  \/ \E t \in Tasks : ReqUpsertUpdate(t)
  \/ \E t \in Tasks : ReqReset(t)
  \/ \E t \in Tasks : ReqReread(t)
  \/ \E t \in Tasks : ReqEnqueue(t)
  \/ \E t \in Tasks : Pickup(t)
  \/ \E t \in Tasks : ExecuteSuccess(t)
  \/ \E t \in Tasks : ExecuteFailure(t)
  \/ \E t \in Tasks : decrementRead(t)
  \/ \E t \in Tasks : decrementWrite(t)
  \/ \E t \in Tasks : CancelTask(t)
  \/ Tick

Spec == Init /\ [][Next]_vars

\* the service with worker processes that may die
NextCrash ==
  \/ NextCore
  \/ \E t \in Tasks : WorkerCrash(t)

SpecCrash == Init /\ [][NextCrash]_vars

\* the service with a store whose writes may fail during settlement
NextStoreFailure ==
  \/ NextCore
  \/ \E t \in Tasks : SettleFailure(t)

SpecStoreFailure == Init /\ [][NextStoreFailure]_vars

\* the service with the cleanup job of the audit service running
NextCleanup ==
  \/ NextCore
  \/ CleanupOldLogs

SpecCleanup == Init /\ [][NextCleanup]_vars

\* the service with clients that ask for their statistics
NextStats ==
  \/ NextCore
  \/ \E u \in Users : GetStats(u)

SpecStats == Init /\ [][NextStats]_vars

\* the service with an administrator granting tokens and resetting cycles
NextAdmin ==
  \/ NextCore
  \/ \E u \in Users : GrantTokens(u)
  \/ \E u \in Users : AdminResetBilling(u)

SpecAdmin == Init /\ [][NextAdmin]_vars

\* submissions arriving through the rate limiter, with the tier events
NextRate ==
  \/ \E u \in Users, ip \in RateKeys : RateLimitedSubmission(u, ip)
  \/ MinuteEnds
  \/ \E u \in Users : SubscriptionUpdated(u)
  \/ \E u \in Users : SubscriptionDeleted(u)

SpecRate == Init /\ [][NextRate]_vars

\* the service with a worker whose configuration may lack the API key
NextConfiguration ==
  \/ NextCore
  \/ \E t \in Tasks : ConfigurationFailure(t)

SpecConfiguration == Init /\ [][NextConfiguration]_vars

\* one billing cycle of an existing account: submissions, the worker, the
\* owner's cancel, and the task routes called by another account
NextRoutes ==
  \/ \E t \in Tasks : ReqLoad(t)
  \/ \E t \in Tasks : ReqEnqueue(t)
  \/ \E t \in Tasks : Pickup(t)
  \/ \E t \in Tasks : ExecuteSuccess(t)
  \/ \E t \in Tasks : ExecuteFailure(t)
  \/ \E t \in Tasks : decrementRead(t)
  \/ \E t \in Tasks : decrementWrite(t)
  \/ \E t \in Tasks : CancelTask(t)
  \/ \E c \in Callers, t \in Tasks, route \in TaskRoutes :
       ForeignTaskRequest(c, t, route)

SpecRoutes == Init /\ [][NextRoutes]_vars

\* the Go daemon's API behind the usage middleware
NextUsage ==
  \/ NewUsageMiddleware
  \/ \E r \in Requests, h \in Headers : CheckAuth(r, h)
  \/ \E r \in Requests : TrackUsageBefore(r)
  \/ \E r \in Requests : ServeHTTP(r)
  \/ \E r \in Requests : TrackUsageAfter(r)

SpecUsage == Init /\ [][NextUsage]_vars

\* the audit service: records are written as time passes and the queries read
NextAudit ==
  \/ \E u \in AuditUsers, p \in Projects : LogRecord(u, p)
  \/ \E u \in AuditUsers : GetUserAuditLogs(u)
  \/ \E p \in Projects : GetProjectAuditLogs(p)
  \/ Tick

SpecAudit == Init /\ [][NextAudit]_vars

\* a worker that is running goes on: BullMQ hands a waiting job to it, the
\* executor answers (with a result or an error) and each await of the
\* processor returns; worker crashes stay possible at every moment
WorkerFairness ==
  \A t \in Tasks :
    /\ WF_vars(Pickup(t))
    /\ WF_vars(ExecuteSuccess(t) \/ ExecuteFailure(t))
    /\ WF_vars(decrementRead(t))
    /\ WF_vars(decrementWrite(t))

\* submissions, the queue and workers that may die, within one billing cycle
NextQueue ==
  \/ \E t \in Tasks : ReqLoad(t)
  \/ \E t \in Tasks : ReqLoadMissing(t)
  \/ \E t \in Tasks : ReqUpsertGet(t)
  \/ \E t \in Tasks : ReqUpsertSet(t)
  \/ \E t \in Tasks : ReqUpsertUpdate(t)
  \/ \E t \in Tasks : ReqEnqueue(t)
  \/ \E t \in Tasks : Pickup(t)
  \/ \E t \in Tasks : ExecuteSuccess(t)
  \/ \E t \in Tasks : ExecuteFailure(t)
  \/ \E t \in Tasks : decrementRead(t)
  \/ \E t \in Tasks : decrementWrite(t)
  \/ \E t \in Tasks : WorkerCrash(t)
  \/ \E t \in Tasks : CancelTask(t)

SpecQueueFair == Init /\ [][NextQueue]_vars /\ WorkerFairness

\* ------------------------------------------------------------------------
\* Properties
\* ------------------------------------------------------------------------
\* the requests verifyUserAccess has answered, and those it has allowed
Decided == {t \in Tasks : decision[t] # "none"}
Admitted == {t \in Tasks : decision[t] = "Allowed"}

\* request t is answered in this step
Decides(t) == decision[t] = "none" /\ decision'[t] # "none"

\* the userData the checks of the answering step run on
DecisionBasis(t) ==
  CASE rpc[t] = "upsertSet" -> NewUser(now)
    [] rpc[t] = "upsertUpdate" -> rsnap[t]
    [] OTHER -> users[Uid(t)]

\* no tier event has reached the account (no event writes paymentStatus 'none')
NeverUpdated(u) == users[u].tier = "free" /\ users[u].paymentStatus = "none"

\* C1: for every account, in every reachable state,
\* 0 <= concurrentTasks <= maxConcurrentTasks of the account's current tier.
ConcurrentTasksWithinTierLimit ==
  \A u \in Users :
    users[u].exists =>
      /\ 0 <= users[u].currentConcurrentAgents
      /\ users[u].currentConcurrentAgents <= maxConcurrentAgents(users[u].tier)

\* C2: N admission requests for one account of a tier with
\* maxConcurrentTasks = k, no task picked up or finished in between and the
\* payment and quota checks passing: at most k are admitted, and once more
\* than k are answered exactly k are admitted and the others are denied with
\* ConcurrencyLimitReached.
ConcurrentAdmissionsAdmitExactlyK ==
  \A u \in Users :
    ( /\ users[u].exists
      /\ NeverUpdated(u)
      /\ users[u].tokensUsedThisMonth < monthlyTokenLimit(users[u].tier)
      /\ \A t \in Tasks : started[t] = 0 /\ jstate[t] \in {"none", "waiting"} )
    => /\ Cardinality(Admitted) <= maxConcurrentAgents(users[u].tier)
       /\ Cardinality(Decided) > maxConcurrentAgents(users[u].tier)
            => /\ Cardinality(Admitted) = maxConcurrentAgents(users[u].tier)
               /\ \A t \in Decided \ Admitted :
                    decision[t] = "ConcurrencyLimitReached"

\* C3: the concurrency check and the increment are one step: the step that
\* answers a request with Allowed raises concurrentTasks of the account by 1.
AllowedReservesSlot ==
  [][\A t \in Tasks :
       (Decides(t) /\ decision'[t] = "Allowed")
         => users'[Uid(t)].currentConcurrentAgents
              = users[Uid(t)].currentConcurrentAgents + 1]_vars

\* C4: a task delivered to the worker twice changes the counters as much as
\* a task delivered once: when its job is completed its tokens have been
\* added once, tasksCompleted counted once, and the slot it took is released.
RedeliveryIdempotent ==
  \A t \in Tasks :
    jstate[t] = "completed" => settles[t] = 1 /\ held[t] = 0

\* request t performs the rollover reset in this step
RolloverResets(t) == rpc[t] = "reset" /\ rpc'[t] = "reread"

\* C5: a cycle boundary crossing is reset once: every rollover reset is
\* written to an account whose stored cycle has elapsed, so tokensUsedThisCycle
\* is never zeroed a second time within the new cycle.
RolloverResetsOncePerCrossing ==
  [][\A t \in Tasks :
       RolloverResets(t) => now > users[Uid(t)].billingCycleEnd]_vars

\* C6: a task is executed at most maxAttempts times; one that succeeds after
\* n failures is Done with attempt = n + 1 (n = maxAttempts - 1 gives
\* attempt = maxAttempts), and one that has failed maxAttempts times is Failed.
RetryCeiling ==
  \A t \in Tasks :
    /\ started[t] <= QUEUE_MAX_RETRIES
    /\ attemptsMade[t] <= QUEUE_MAX_RETRIES
    /\ jstate[t] = "completed" => started[t] = attemptsMade[t] + 1
    /\ attemptsMade[t] = QUEUE_MAX_RETRIES
         => jstate[t] = "failed" /\ started[t] = QUEUE_MAX_RETRIES
    /\ jstate[t] = "failed" => attemptsMade[t] = QUEUE_MAX_RETRIES

\* a task that failed maxAttempts - 1 times and then succeeded
DoneOnLastAttempt ==
  \E t \in Tasks :
    /\ jstate[t] = "completed"
    /\ attemptsMade[t] = QUEUE_MAX_RETRIES - 1
    /\ started[t] = QUEUE_MAX_RETRIES

\* C7: cancel succeeds only on a task that is still Queued; in every other
\* state the task is left as it is.
CancelOnlyWhileQueued ==
  [][\A t \in Tasks :
       (jstate[t] # "removed" /\ jstate'[t] = "removed")
         => StatusOf(jstate[t]) = "queued"]_vars

\* C8: an account on tier pro whose paymentStanding is past_due is denied
\* with SubscriptionInactive, whatever its tokens and concurrent tasks are.
PastDueDeniedSubscriptionInactive ==
  [][\A t \in Tasks :
       ( /\ Decides(t)
         /\ DecisionBasis(t).tier = "pro"
         /\ DecisionBasis(t).paymentStatus = "past_due" )
       => decision'[t] = "SubscriptionInactive"]_vars

\* the payment checks pass on userData ud
PaymentOk(ud) ==
  ud.tier = "free" \/ (ud.isPaid /\ ud.paymentStatus \in {"active", "trialing"})

\* C9: the quota gates admission only. A request answered on an account with
\* tokensUsedThisCycle >= monthlyTokenQuota is denied, with QuotaExceeded when
\* the payment checks pass (always on the free tier); below the quota it is
\* not denied for quota; and a settlement adds the tokens consumed whatever
\* the quota is (49900 + 200 = 50100 on the free tier).
QuotaGatesAdmissionOnly ==
  [][ /\ \A t \in Tasks :
           Decides(t) =>
             LET ud == DecisionBasis(t) IN
               /\ ud.tokensUsedThisMonth >= monthlyTokenLimit(ud.tier)
                    => /\ decision'[t] # "Allowed"
                       /\ PaymentOk(ud) => decision'[t] = "QuotaExceeded"
               /\ ud.tokensUsedThisMonth < monthlyTokenLimit(ud.tier)
                    => decision'[t] # "QuotaExceeded"
      /\ \A t \in Tasks :
           settles'[t] = settles[t] + 1 =>
             /\ users'[Uid(t)].tokensUsedThisMonth
                  - users[Uid(t)].tokensUsedThisMonth \in TokenChoices
             /\ taskStatus'[t] = "done"
    ]_vars

\* the free account that was at 49900 has settled a task of 200 tokens, the
\* task is Done, and a later request was denied with QuotaExceeded
OverQuotaAfterSettlement ==
  \E t1, t2 \in Tasks :
    /\ t1 # t2
    /\ jstate[t1] = "completed"
    /\ users[Uid(t1)].tier = "free"
    /\ users[Uid(t1)].tokensUsedThisMonth = 50100
    /\ decision[t2] = "QuotaExceeded"

\* C10: a denied submission creates no task, enqueues nothing, writes no
\* audit record and takes no slot; a job exists only for an allowed submission.
DeniedCreatesNothing ==
  \A t \in Tasks :
    /\ rpc[t] = "denied"
         => /\ jstate[t] = "none"
            /\ started[t] = 0 /\ held[t] = 0 /\ settles[t] = 0
            /\ \A l \in auditLogs : l.taskId # t
    /\ jstate[t] # "none" => decision[t] = "Allowed"
    /\ (\E l \in auditLogs : l.taskId = t) => decision[t] = "Allowed"

\* one submission was denied while another one has its job in the queue
DeniedNextToQueued ==
  \E t1, t2 \in Tasks :
    /\ rpc[t1] = "denied"
    /\ decision[t1] \in {"QuotaExceeded", "ConcurrencyLimitReached"}
    /\ jstate[t2] \in {"waiting", "active"}

\* C11: over the whole life of an admitted task the slot is released exactly
\* once, and only when the task is Done or Failed; its tokens are settled
\* exactly once when it ends Done and never when it ends Failed.
ReleaseAndSettleOncePerTask ==
  \A t \in Tasks :
    /\ releases[t] <= 1
    /\ releases[t] = 1 => jstate[t] \in {"completed", "failed", "removed"}
    /\ jstate[t] = "completed" => releases[t] = 1 /\ settles[t] = 1
    /\ jstate[t] = "failed" => releases[t] = 1 /\ settles[t] = 0

\* the states of a job in which its task is Done, Failed or Canceled
TerminalJobStates == {"completed", "failed", "removed"}

\* C12: a task in a terminal state (Done, Failed, Canceled) is immutable: no
\* step of a worker, of cancel or of getStatus changes its state or removes it.
TerminalStatesImmutable ==
  [][\A t \in Tasks :
       jstate[t] \in TerminalJobStates => jstate'[t] = jstate[t]]_vars

\* what a client sees of the task of a job in state js: nothing before the
\* submission, Canceled once cancel has succeeded, getTaskStatus otherwise
ObservedStatus(js) ==
  CASE js = "none" -> "absent"
    [] js = "removed" -> "canceled"
    [] OTHER -> StatusOf(js)

\* C13: the status of a task changes only by Queued -> Processing,
\* Processing -> Done, Processing -> Failed, Processing -> Queued (a retry,
\* while the attempts made are below maxAttempts) and Queued -> Canceled,
\* after the submission has made it Queued.
OnlyStateMachineTransitions ==
  [][\A t \in Tasks :
       ObservedStatus(jstate'[t]) # ObservedStatus(jstate[t]) =>
         \/ <<ObservedStatus(jstate[t]), ObservedStatus(jstate'[t])>> \in
              { <<"absent", "queued">>, <<"queued", "processing">>,
                <<"processing", "done">>, <<"processing", "failed">>,
                <<"queued", "canceled">> }
         \/ /\ ObservedStatus(jstate[t]) = "processing"
            /\ ObservedStatus(jstate'[t]) = "queued"
            /\ attemptsMade'[t] < QUEUE_MAX_RETRIES]_vars

\* C14: settlement is never lost and never repeated: the executor is not
\* invoked again for a task it has already completed (a settle write that
\* fails is retried on its own), and a task that is Done has been executed
\* once and has had its tokens and its completion added exactly once.
SettlementExactlyOnce ==
  \A t \in Tasks :
    /\ executed[t] <= 1
    /\ jstate[t] = "completed" => settles[t] = 1
    /\ (executed[t] = 1 /\ jstate[t] = "failed") => settles[t] = 1

\* the two denials for payment reasons
PaymentDenials == {"PaymentRequired", "SubscriptionInactive"}

\* C15: a request answered for an account on the free tier is never denied
\* for payment reasons, whatever the payment status is (canceled after a
\* subscription-deleted event included), and it is allowed exactly when the
\* account is within the free tier's quota and concurrency limit; a request
\* answered for an account on another tier whose payment status is neither
\* active nor trialing is denied PaymentRequired or SubscriptionInactive.
FreeTierNeverPaymentGated ==
  [][\A t \in Tasks :
       Decides(t) =>
         LET ud == DecisionBasis(t) IN
           /\ ud.tier = "free" =>
                /\ decision'[t] \notin PaymentDenials
                /\ decision'[t] = "Allowed" <=>
                     /\ ud.tokensUsedThisMonth < monthlyTokenLimit("free")
                     /\ ud.currentConcurrentAgents < maxConcurrentAgents("free")
           /\ (ud.tier # "free" /\ ud.paymentStatus \notin {"active", "trialing"})
                => decision'[t] \in PaymentDenials]_vars

\* request t writes the document of a new user in this step (userRef.set)
CreatesAccount(t) == rpc[t] = "upsertSet" /\ rpc'[t] # "upsertSet"

\* C16: an account comes into existence only by the first admission request,
\* as a free account with zero counters and the cycle window now .. now + 30
\* days, and no request writes the new-user document over an account that
\* exists already (a request racing with the first one included).
AccountCreatedOnce ==
  [][\A u \in Users :
       /\ (~users[u].exists /\ users'[u].exists)
            => /\ users'[u] = NewUser(now)
               /\ \E t \in Tasks : Uid(t) = u /\ CreatesAccount(t)
       /\ users[u].exists
            => \A t \in Tasks : Uid(t) = u => ~CreatesAccount(t)]_vars

\* request t runs the cycle check of verifyUserAccess in this step, on the
\* document it has just read or on the one upsertUserData returned
CycleChecked(t) ==
  \/ rpc[t] = "idle" /\ users[Uid(t)].exists /\ rpc'[t] # "idle"
  \/ rpc[t] = "upsertUpdate" /\ rpc'[t] # "upsertUpdate"

\* the userData the cycle check of request t runs on
CycleBasis(t) == IF rpc[t] = "upsertUpdate" THEN rsnap[t] ELSE users[Uid(t)]

\* C17: the cycle check resets the account exactly when now >= cycleEnd
\* (now = cycleEnd included) and before the request is answered; the reset
\* writes tokensUsedThisCycle = 0, tasksCompletedThisCycle = 0, cycleStart =
\* now, cycleEnd = now + 30 days; when now < cycleEnd the account is unchanged.
ResetExactlyWhenCycleEnded ==
  [][\A t \in Tasks :
       /\ CycleChecked(t) =>
            /\ rpc'[t] = "reset" <=> now >= CycleBasis(t).billingCycleEnd
            /\ now < CycleBasis(t).billingCycleEnd => users' = users
       /\ RolloverResets(t) =>
            /\ users'[Uid(t)].tokensUsedThisMonth = 0
            /\ users'[Uid(t)].tasksCompletedThisMonth = 0
            /\ users'[Uid(t)].billingCycleStart = now
            /\ users'[Uid(t)].billingCycleEnd = now + ThirtyDays]_vars

\* C18: every admission decision, Allowed or a denial, appends one audit
\* record that carries the account id, the reason and a snapshot of the
\* counters.
EveryDecisionAudited ==
  [][\A t \in Tasks :
       Decides(t) =>
         /\ Cardinality(auditLogs' \ auditLogs) = 1
         /\ \A l \in auditLogs' \ auditLogs :
              /\ l.userId = Uid(t)
              /\ {"reason", "counters"} \subseteq DOMAIN l]_vars

\* C19: the audit ledger is append-only: no step modifies or removes a record
\* that has been written, so the set of records only grows.
AuditLedgerAppendOnly == [][auditLogs \subseteq auditLogs']_vars

\* C20: the statistics answered for an account at or after its cycleEnd
\* reflect the rollover: tokensUsed = 0, tokensRemaining = the full quota of
\* the tier and a billingCycleEnd in the future.
StatsReflectRollover ==
  [][\A u \in Users :
       (stats'[u] # stats[u] /\ now >= users[u].billingCycleEnd) =>
         /\ stats'[u][1].tokensUsed = 0
         /\ stats'[u][1].tokensRemaining = monthlyTokenLimit(users[u].tier)
         /\ stats'[u][1].billingCycleEnd > now]_vars

\* the tier or the payment standing of the existing account u changes in this
\* step
TierOrStandingChanges(u) ==
  /\ users[u].exists
  /\ \/ users'[u].tier # users[u].tier
     \/ users'[u].isPaid # users[u].isPaid
     \/ users'[u].paymentStatus # users[u].paymentStatus

TokensUsedNeverNegative ==
  \A u \in Users : users[u].tokensUsedThisMonth >= 0

\* the decrementConcurrentAgents call made for task t returns in this step
Releases(t) == releases'[t] = releases[t] + 1

\* C23: a release on an account whose concurrentTasks is 0, or that does not
\* exist, returns normally and changes nothing: the counter stays 0 and is
\* never negative, and the account is not created.
ReleaseAtZeroChangesNothing ==
  [][\A t \in Tasks :
       ( /\ Releases(t)
         /\ \/ ~users[Uid(t)].exists
            \/ users[Uid(t)].currentConcurrentAgents = 0 )
       => users' = users]_vars

\* C24: the submissions accepted for an account within one minute never
\* exceed the tasksPerMinute of the account's tier (free 5, pro 20,
\* enterprise 100).
AcceptedWithinTasksPerMinute ==
  \A u \in Users :
    users[u].exists => accepted[u] <= tasksPerMinute(users[u].tier)

\* C25: failures are classified. A task whose execution failed for good
\* (missing configuration, invalid input) is not executed again and is Failed
\* once that attempt is over; a task is Failed for transient failures only
\* after maxAttempts attempts.
PermanentFailureNotRetried ==
  \A t \in Tasks :
    /\ permanentAt[t] > 0 =>
         /\ started[t] = permanentAt[t]
         /\ wpc[t] = "idle" => jstate[t] \in {"failed", "removed"}
    /\ (permanentAt[t] = 0 /\ jstate[t] = "failed")
         => attemptsMade[t] = QUEUE_MAX_RETRIES

NoSlotLeak ==
  \A u \in Users :
    ( /\ users[u].exists
      /\ \A t \in Tasks : Uid(t) = u => jstate[t] \notin {"waiting", "active"} )
    => users[u].currentConcurrentAgents = 0

\* the attempt of task t ends in failure in this step (the catch block)
AttemptFails(t) == taskStatus[t] = "processing" /\ taskStatus'[t] = "failed"

\* C28: an attempt that ends in failure leaves tokensUsedThisCycle and
\* tasksCompletedThisCycle of the account as they were: a failed attempt
\* contributes 0 tokens.
FailedAttemptLeavesLedgerUnchanged ==
  [][\A t \in Tasks :
       AttemptFails(t)
         => /\ users'[Uid(t)].tokensUsedThisMonth
                 = users[Uid(t)].tokensUsedThisMonth
            /\ users'[Uid(t)].tasksCompletedThisMonth
                 = users[Uid(t)].tasksCompletedThisMonth]_vars

\* the audit records of one action written for task t
RecordsOf(action, t) == {l \in auditLogs : l.action = action /\ l.taskId = t}

\* C29: each task has one terminal audit record: one task_completed record
\* when it ends in Done, one task_failed record when it ends in Failed; a
\* task waiting for its retry has no task_failed record, and no task has both
\* a task_failed and a task_completed record.
OneTerminalAuditRecord ==
  \A t \in Tasks :
    LET c == Cardinality(RecordsOf("task_completed", t))
        f == Cardinality(RecordsOf("task_failed", t))
    IN /\ c + f <= 1
       /\ jstate[t] = "completed" => c = 1 /\ f = 0
       /\ jstate[t] = "failed" => c = 0 /\ f = 1
       /\ jstate[t] = "waiting" => f = 0

\* the owner's cancel removes the Queued task t in this step
CancelsQueued(t) == jstate[t] = "waiting" /\ jstate'[t] = "removed"

\* no task but t has been handed to a worker: concurrentTasks of the account
\* was 0 before t was admitted and only t has changed it since
OnlyTaskStarted(t) == \A o \in Tasks \ {t} : started[o] = 0

\* C30: cancelling a Queued task gives back what its admission took: after
\* the cancel no tokens are settled for the task and concurrentTasks of the
\* account is what it was before the task was admitted (0 when no other task
\* has run), and a canceled task is never executed.
CancelGivesBackAdmission ==
  [][\A t \in Tasks :
       /\ (CancelsQueued(t) /\ OnlyTaskStarted(t))
            => /\ settles'[t] = 0
               /\ users'[Uid(t)].currentConcurrentAgents = 0
       /\ jstate[t] = "removed" => started'[t] = started[t]]_vars

\* the job of task t is waiting for a retry (delayed by the backoff)
AwaitsRetry(t) == jstate[t] = "waiting" /\ attemptsMade[t] > 0

\* min(base * 2^n, cap) with base = 2000 ms
CappedDelay(n, cap) ==
  IF BackoffDelay * (2 ^ n) < cap THEN BackoffDelay * (2 ^ n) ELSE cap

\* the caps a queue could be configured with, in steps of 1000 ms
BackoffCaps == {1000 * k : k \in 1 .. 64}

\* C31 as stated: there is a cap with which the delay before the retry that
\* follows the n-th failed attempt of a job is min(2000 * 2^n, cap).
RetryDelayCappedPowerOfAttempt ==
  \E cap \in BackoffCaps :
    \A t \in Tasks :
      AwaitsRetry(t) => delay[t] = CappedDelay(attemptsMade[t], cap)

\* 2000 ms for the first failure, doubled for each further one
RECURSIVE DoubledDelay(_)
DoubledDelay(n) == IF n <= 1 THEN 2000 ELSE 2 * DoubledDelay(n - 1)

\* C31: the delay before the retry that follows the n-th failed attempt of a
\* job (n >= 1) is 2000 * 2^(n - 1) ms: 2000 ms after the first failure and
\* twice the previous delay after each further one; no cap is applied.
RetryDelayDoubles ==
  \A t \in Tasks : AwaitsRetry(t) => delay[t] = DoubledDelay(attemptsMade[t])

\* a job waits for its second retry, with the doubled delay
SecondRetryDelayed ==
  \E t \in Tasks : AwaitsRetry(t) /\ attemptsMade[t] = 2 /\ delay[t] = 4000

\* the records of the audit map an answer is about
Matching(a) ==
  {i \in 1 .. Len(auditMap) :
     IF a.by = "user" THEN auditMap[i].userId = a.key
                      ELSE auditMap[i].projectId = a.key}

\* the answer a is right for the audit map as it is
RightAnswer(a) ==
  LET ids == {a.logs[i].id : i \in 1 .. Len(a.logs)}
  IN /\ Len(a.logs) <= a.limit
     /\ Cardinality(ids) = Len(a.logs)
     /\ \A i \in 1 .. Len(a.logs) :
          /\ a.logs[i].id \in Matching(a)
          /\ a.logs[i] = auditMap[a.logs[i].id]
     /\ \A i, j \in 1 .. Len(a.logs) :
          i < j => a.logs[i].timestamp >= a.logs[j].timestamp
     /\ Len(a.logs) < a.limit => ids = Matching(a)
     /\ \A m \in Matching(a) \ ids :
          \A i \in 1 .. Len(a.logs) : auditMap[m].timestamp <= a.logs[i].timestamp

\* C32: getUserAuditLogs(userId, limit) and getProjectAuditLogs(projectId,
\* limit) return at most limit records, each one of the requested user
\* (project), ordered newest first, and they are the limit most recent
\* matching records; the call leaves the ledger as it is.
AuditQueryReturnsNewestLimit ==
  [][auditAnswer' # auditAnswer
       => /\ auditMap' = auditMap
          /\ auditLogs' = auditLogs
          /\ RightAnswer(auditAnswer'[1])]_vars

\* a query with limit 2 has answered with the two newest of three matching
\* records, of different timestamps
AnswerCutAtLimit ==
  /\ auditAnswer # <<>>
  /\ Len(auditAnswer[1].logs) = 2
  /\ Cardinality(Matching(auditAnswer[1])) = 3
  /\ auditAnswer[1].logs[1].timestamp > auditAnswer[1].logs[2].timestamp

\* C33: cycleEnd > cycleStart holds for every account after every step,
\* account creation and rollover included, and each reset of the cycle moves
\* cycleEnd strictly forward.
CycleWindowMovesForward ==
  [][/\ \A u \in Users :
          users'[u].exists =>
            users'[u].billingCycleEnd > users'[u].billingCycleStart
     /\ \A t \in Tasks :
          RolloverResets(t) =>
            users'[Uid(t)].billingCycleEnd > users[Uid(t)].billingCycleEnd]_vars

\* the account as invoice.payment_failed leaves a paid account: tier kept,
\* isPaid false, paymentStatus past_due
Suspended(u) ==
  /\ users[u].exists
  /\ users[u].tier # "free"
  /\ ~users[u].isPaid
  /\ users[u].paymentStatus = "past_due"

\* C34: from a payment-failed event for an account on a paid tier until an
\* updateTier gives it an active or trialing standing or the free tier, every
\* admission request answered for the account is denied.
SuspendedAccountDenied ==
  [][\A t \in Tasks :
       (Decides(t) /\ Suspended(Uid(t))) => decision'[t] # "Allowed"]_vars

\* C35: a grant of bonus tokens lowers tokensUsedThisCycle of the account by
\* the amount granted and changes nothing else of it: tasksCompletedThisCycle,
\* concurrentTasks, tier, payment standing and the cycle window stay.
GrantChangesTokensOnly ==
  [][ngrants' # ngrants =>
       \E u \in Users, amount \in GrantChoices :
         users' = [users EXCEPT ![u].tokensUsedThisMonth = @ - amount]]_vars

\* the cycle of account u is reset in this step, by the rollover of a request
\* or by POST /api/admin/users/:uid/reset-billing
ResetsCycle(u) ==
  \/ \E t \in Tasks : Uid(t) = u /\ RolloverResets(t)
  \/ /\ users'[u] # users[u]
     /\ UNCHANGED <<reqVars, jobVars, histVars, ngrants>>

\* C36: a reset of the cycle, forced or by rollover, writes tokensUsedThisCycle,
\* tasksCompletedThisCycle and the cycle window only: concurrentTasks, tier and
\* payment standing are as before, so the slots of running tasks survive it.
ResetKeepsSlotsAndTier ==
  [][\A u \in Users :
       ResetsCycle(u) =>
         \E s, e \in 0 .. MaxTime + ThirtyDays :
           users'[u] = [users[u] EXCEPT !.tokensUsedThisMonth = 0,
                                        !.tasksCompletedThisMonth = 0,
                                        !.billingCycleStart = s,
                                        !.billingCycleEnd = e]]_vars

\* the cycle was reset after the settlement of a task that still holds its
\* slot: the counters are 0 and concurrentTasks is 1
ResetWhileSlotHeld ==
  \E t \in Tasks :
    /\ wpc[t] = "decrementRead" /\ taskStatus[t] = "done"
    /\ \A o \in Tasks \ {t} : started[o] = 0
    /\ users[Uid(t)].exists
    /\ users[Uid(t)].tokensUsedThisMonth = 0
    /\ users[Uid(t)].tasksCompletedThisMonth = 0
    /\ users[Uid(t)].currentConcurrentAgents = 1

\* C37: a task route called by an account that did not submit the task is
\* refused and leaves the task, the queue and the audit ledger as they are,
\* and its answer is the same whatever the state of the task is.
ForeignCallerRefusedAlike ==
  [][response' # response =>
       /\ UNCHANGED <<jobVars, auditLogs, auditMap, users>>
       /\ response'[1].status \in {403, 404}
       /\ ( /\ response # <<>>
            /\ response'[1].caller = response[1].caller
            /\ response'[1].taskId = response[1].taskId
            /\ response'[1].route = response[1].route )
          => response'[1].status = response[1].status]_vars

\* C38: in every state the enabledFeatures of an account are the feature list
\* of its tier in TIER_CONFIGS.
FeaturesMatchTier ==
  \A u \in Users :
    users[u].exists => users[u].enabledFeatures = features(users[u].tier)

\* an account that has been moved to the pro tier holds the pro features
ProAccountWithProFeatures ==
  \E u \in Users :
    /\ users[u].exists
    /\ users[u].tier = "pro"
    /\ users[u].enabledFeatures = features("pro")

\* C39: with tracking enabled the wrapped handler runs only for a request
\* with a valid Bearer token whose user had at least 1 point when CheckAuth
\* read the balance; points are deducted at most once per request and only for
\* a request answered 2xx, a deduction, failed or not, leaves the response as
\* the handler gave it; with tracking disabled every request reaches the
\* handler, its response is the handler's and no points are deducted.
UsageMiddlewareGatesAndCharges ==
  \A r \in Requests :
    /\ usage.ran[r] <= 1
    /\ usage.deducted[r] <= 1
    /\ (usage.enabled /\ usage.ran[r] = 1)
         => usage.header[r] = "valid" /\ usage.pointsSeen[r] >= 1
    /\ usage.deducted[r] = 1
         => /\ usage.ran[r] = 1
            /\ usage.handlerStatus[r] >= 200 /\ usage.handlerStatus[r] < 300
    /\ (usage.ran[r] = 1 /\ usage.pc[r] \in {"deduct", "done"})
         => usage.status[r] = usage.handlerStatus[r]
    /\ (usage.configured /\ ~usage.enabled)
         => /\ usage.deducted[r] = 0
            /\ usage.pc[r] = "done" => usage.ran[r] = 1

\* with tracking enabled one request has been charged after its 200 and
\* another one, answered 500 by the handler, has been finished without charge
ChargedAndUncharged ==
  \E r, q \in Requests :
    /\ usage.enabled
    /\ usage.pc[r] = "done" /\ usage.deducted[r] = 1 /\ usage.status[r] = 200
    /\ usage.pc[q] = "done" /\ usage.ran[q] = 1 /\ usage.status[q] = 500
    /\ usage.deducted[q] = 0
====
